---- MODULE Spec2Model ----
(***************************************************************************)
(* A model of the committee scheduler API of oasis-core                    *)
(* (go/scheduler/api/api.go): the transaction scheduler rotation of a      *)
(* Committee, the stake to voting power conversion, the text codecs of    *)
(* Role and CommitteeKind, and ConsensusParameterChanges.Apply.            *)
(*                                                                         *)
(* Each component has its own specification (SchedSpec, PowerSpec,         *)
(* TextSpec, ParamsSpec); the variables of the other components stay at    *)
(* their idle values under it.                                             *)
(***************************************************************************)
EXTENDS Integers, Sequences, FiniteSets, TLC

VARIABLES
    committee,      \* the Committee the scheduler calls are made on
    round,          \* the next round TransactionScheduler(Idx) is called for
    idxLog,         \* results of TransactionSchedulerIdx, entry r+1 is round r
    schedLog,       \* results of TransactionScheduler, entry r+1 is round r
    stake,          \* the caller's quantity t handed to VotingPowerFromStake
    BaseUnitsPerVotingPower, \* the package variable of that name
    vpRes,          \* (power, error) of the last VotingPowerFromStake call
    vpCalls,        \* calls made since stake and unit were last set
    role,           \* the Role a *Role receiver of UnmarshalText points to
    kind,           \* the CommitteeKind a *CommitteeKind receiver points to
    wire,           \* the text last produced or received
    wireSrc,        \* what produced the text on the wire
    textOp,         \* the last text codec operation
    textErr,        \* its error
    params,         \* the ConsensusParameters that Apply is handed
    change,         \* the ConsensusParameterChanges
    applied,        \* Apply calls of this change made so far
    applyErr,       \* the error of the last Apply
    cmtA,           \* a Committee whose members are hashed
    cmtB,           \* another Committee whose members are hashed
    hashOfA,        \* the EncodedMembersHash of cmtA, once computed
    hashOfB,        \* the EncodedMembersHash of cmtB, once computed
    payload,        \* the data handed to cbor.GetVersion
    verRes,         \* (version, error) of the last GetVersion call
    verCalled,      \* GetVersion has been called on the payload
    etCfg,          \* the network, fixture and flags initialEpochTransitionsWith runs on
    etPc,           \* the external call it is about to make
    etEpoch,        \* its local variable epoch
    etSkips,        \* its local variable numSkips, 0 until it is drawn
    etLog,          \* the external calls it has made, in order
    etRes,          \* the (epoch, error) it has returned, once it has
    imCtrl,         \* sc.Net.ClientController() is not nil
    imPc,           \* where submitRuntimeInMsg stands
    imSub,          \* the roothash event subscription: "none", "open", "closed"
    imCh,           \* the events waiting in the subscription's channel
    imRecv,         \* the events the function has received, in order
    imClock,        \* seconds since context.WithTimeout
    imCtxErr,       \* ctx.Err() of the context the function waits on
    imTrace,        \* the external calls the function has made, in order
    imRes,          \* the error it has returned, once it has
    wcEpoch,        \* the active epoch of the scheduler service
    wcCache,        \* the committees valid for the active epoch
    wcLock,         \* the holder of the snapshot lock: "free" or "publisher"
    wcDone,         \* the subscribers the publication in flight has reached
    wcSub,          \* per subscriber: its state and the epochs it joined and left in
    wcBuf,          \* per subscriber: its buffered channel
    wcGot           \* per subscriber: the committees delivered to it, in order

schedVars  == <<committee, round, idxLog, schedLog>>
powerVars  == <<stake, BaseUnitsPerVotingPower, vpRes, vpCalls>>
textVars   == <<role, kind, wire, wireSrc, textOp, textErr>>
paramsVars == <<params, change, applied, applyErr>>
hashVars   == <<cmtA, cmtB, hashOfA, hashOfB>>
earlyVars  == <<schedVars, powerVars, textVars, paramsVars>>
versionVars == <<payload, verRes, verCalled>>
epochVars  == <<etCfg, etPc, etEpoch, etSkips, etLog, etRes>>
inMsgVars  == <<imCtrl, imPc, imSub, imCh, imRecv, imClock, imCtxErr, imTrace, imRes>>
watchVars  == <<wcEpoch, wcCache, wcLock, wcDone, wcSub, wcBuf, wcGot>>
lateVars   == <<hashVars, versionVars, epochVars, inMsgVars, watchVars>>
vars == <<earlyVars, lateVars>>

\* Go's nil error.
NoError == "nil"

\* Go's nil pointer and an absent optional value, as sequences of length <= 1.
None == <<>>
Some(x) == <<x>>

(***************************************************************************)
(* Role and CommitteeKind                                                  *)
(***************************************************************************)
RoleInvalid == 0
RoleWorker == 1
RoleBackupWorker == 2

RoleInvalidName == "invalid"
RoleWorkerName == "worker"
RoleBackupWorkerName == "backup-worker"

KindInvalid == 0
KindComputeExecutor == 1

KindInvalidName == "invalid"
KindComputeExecutorName == "executor"

(***************************************************************************)
(* Committee and the transaction scheduler rotation                        *)
(***************************************************************************)
\* Most members of a committee of the model.
MaxMembers == 3

\* The public keys of the nodes of the model.
PublicKeys == {"A", "B", "C"}

\* Rounds 0 .. NumRounds-1 are scheduled: three periods of the largest committee.
NumRounds == 3 * MaxMembers

CommitteeNode == [Role : {RoleInvalid, RoleWorker, RoleBackupWorker}, PublicKey : PublicKeys]

MemberSeqs == UNION {[1..n -> CommitteeNode] : n \in 0..MaxMembers}

Committee == [Kind : {KindComputeExecutor}, Members : MemberSeqs,
              RuntimeID : {"rt"}, ValidFor : {1}]

ErrNoWorkers == "no workers in committee"

\* The first loop of TransactionSchedulerIdx: total, the number of members
\* from position i on whose role is RoleWorker.
RECURSIVE CountWorkers(_, _)
CountWorkers(members, i) ==
    IF i > Len(members) THEN 0
    ELSE IF members[i].Role # RoleWorker THEN CountWorkers(members, i + 1)
    ELSE 1 + CountWorkers(members, i + 1)

\* The second loop, at position i (idx = i - 1 in Go) with `worker` workers
\* passed. round % total with total = 0 is Go's integer divide by zero panic.
RECURSIVE WalkWorkers(_, _, _, _, _)
WalkWorkers(members, i, worker, rnd, total) ==
    IF i > Len(members)
    THEN [idx |-> 0, err |-> ErrNoWorkers, panic |-> FALSE]
    ELSE IF members[i].Role # RoleWorker
    THEN WalkWorkers(members, i + 1, worker, rnd, total)
    ELSE IF total = 0
    THEN [idx |-> 0, err |-> NoError, panic |-> TRUE]
    ELSE IF worker = rnd % total
    THEN [idx |-> i - 1, err |-> NoError, panic |-> FALSE]
    ELSE WalkWorkers(members, i + 1, worker + 1, rnd, total)

\* A slip: the index returned is the worker counter, not the member's index.
RECURSIVE WalkWorkers_ReturnsCounter(_, _, _, _, _)
WalkWorkers_ReturnsCounter(members, i, worker, rnd, total) ==
    IF i > Len(members)
    THEN [idx |-> 0, err |-> ErrNoWorkers, panic |-> FALSE]
    ELSE IF members[i].Role # RoleWorker
    THEN WalkWorkers_ReturnsCounter(members, i + 1, worker, rnd, total)
    ELSE IF total = 0
    THEN [idx |-> 0, err |-> NoError, panic |-> TRUE]
    ELSE IF worker = rnd % total
    THEN [idx |-> worker, err |-> NoError, panic |-> FALSE]
    ELSE WalkWorkers_ReturnsCounter(members, i + 1, worker + 1, rnd, total)

TransactionSchedulerIdx_ReturnsCounter(c, rnd) ==
    WalkWorkers_ReturnsCounter(c.Members, 1, 0, rnd, CountWorkers(c.Members, 1))

\* A slip: the second loop counts every member that is not RoleInvalid, so
\* backup workers take part in the rotation.
RECURSIVE WalkWorkers_CountsBackups(_, _, _, _, _)
WalkWorkers_CountsBackups(members, i, worker, rnd, total) ==
    IF i > Len(members)
    THEN [idx |-> 0, err |-> ErrNoWorkers, panic |-> FALSE]
    ELSE IF members[i].Role = RoleInvalid
    THEN WalkWorkers_CountsBackups(members, i + 1, worker, rnd, total)
    ELSE IF total = 0
    THEN [idx |-> 0, err |-> NoError, panic |-> TRUE]
    ELSE IF worker = rnd % total
    THEN [idx |-> i - 1, err |-> NoError, panic |-> FALSE]
    ELSE WalkWorkers_CountsBackups(members, i + 1, worker + 1, rnd, total)

TransactionSchedulerIdx_CountsBackups(c, rnd) ==
    WalkWorkers_CountsBackups(c.Members, 1, 0, rnd, CountWorkers(c.Members, 1))

TransactionSchedulerIdx(c, rnd) ==
    WalkWorkers(c.Members, 1, 0, rnd, CountWorkers(c.Members, 1))

\* A slip: the error of TransactionSchedulerIdx is dropped, so the index 0 it
\* comes with is used.
TransactionScheduler_DropsError(c, rnd) ==
    LET r == TransactionSchedulerIdx(c, rnd)
    IN  IF r.panic \/ r.idx + 1 > Len(c.Members)
        THEN [node |-> None, err |-> NoError, panic |-> TRUE]
        ELSE [node |-> Some(c.Members[r.idx + 1]), err |-> NoError, panic |-> FALSE]

\* Members[idx] with idx out of range is Go's index out of range panic.
TransactionScheduler(c, rnd) ==
    LET r == TransactionSchedulerIdx(c, rnd)
    IN  IF r.panic THEN [node |-> None, err |-> NoError, panic |-> TRUE]
        ELSE IF r.err # NoError THEN [node |-> None, err |-> r.err, panic |-> FALSE]
        ELSE IF r.idx + 1 > Len(c.Members)
        THEN [node |-> None, err |-> NoError, panic |-> TRUE]
        ELSE [node |-> Some(c.Members[r.idx + 1]), err |-> NoError, panic |-> FALSE]

SchedIdle ==
    /\ committee = [Kind |-> KindInvalid, Members |-> <<>>, RuntimeID |-> "rt", ValidFor |-> 0]
    /\ round = 0
    /\ idxLog = <<>>
    /\ schedLog = <<>>

SchedInit ==
    /\ committee \in Committee
    /\ round = 0
    /\ idxLog = <<>>
    /\ schedLog = <<>>

\* c.TransactionSchedulerIdx(round), for the round the runtime is at.
CallTransactionSchedulerIdx ==
    /\ round < NumRounds
    /\ Len(idxLog) = round
    /\ idxLog' = Append(idxLog, TransactionSchedulerIdx(committee, round))
    /\ UNCHANGED <<committee, round, schedLog>>
    /\ UNCHANGED <<powerVars, textVars, paramsVars, lateVars>>

\* c.TransactionScheduler(round), after which the runtime moves to the next round.
CallTransactionScheduler ==
    /\ round < NumRounds
    /\ Len(idxLog) = round + 1
    /\ schedLog' = Append(schedLog, TransactionScheduler(committee, round))
    /\ round' = round + 1
    /\ UNCHANGED <<committee, idxLog>>
    /\ UNCHANGED <<powerVars, textVars, paramsVars, lateVars>>

SchedNext ==
    \/ CallTransactionSchedulerIdx
    \/ CallTransactionScheduler

(***************************************************************************)
(* Quantities and voting power                                             *)
(*                                                                         *)
(* A quantity.Quantity is a non-negative integer of arbitrary precision,   *)
(* an int64 has 64 bits: both are beyond the integers of the model         *)
(* checker, so a quantity is the sequence of its base 2^16 digits, least   *)
(* significant first and without leading zeros (zero is <<>>), and an      *)
(* int64 is a sign and such a magnitude.                                   *)
(***************************************************************************)
LimbBase == 2 ^ 16

\* Most limbs of a stake of the model: 2^(16 * MaxLimbs) bounds the stakes.
MaxLimbs == 5

\* Most consecutive VotingPowerFromStake calls on one stake.
MaxCalls == 3

RECURSIVE Normalize(_)
Normalize(s) ==
    IF s = <<>> THEN <<>>
    ELSE IF s[Len(s)] = 0 THEN Normalize(SubSeq(s, 1, Len(s) - 1))
    ELSE s

\* The quantity of a number below 2^16.
QuantityOf(n) == IF n = 0 THEN <<>> ELSE <<n>>

\* An int64 of a small non-negative number.
Int64Of(n) == [neg |-> FALSE, mag |-> QuantityOf(n)]

\* The least and the more significant limbs the stakes of the model are made of.
LowLimbs == {0, 5, 160, 65535}
HighLimbs == {0, 64, 32768, 65535}

Stakes == {Normalize(<<a>> \o h) : a \in LowLimbs, h \in [1..(MaxLimbs - 1) -> HighLimbs]}

\* The units of the model, each a single limb: 16 is the unit init() sets.
Units == {QuantityOf(0), QuantityOf(1), QuantityOf(2), QuantityOf(16)}

ErrQuo == "quo: invalid operation"
ErrTooManyBaseUnits == "too many base units to convert to power"

\* Quantity.Clone: a new quantity of the same value.
Clone(q) == q

\* Quantity.IsZero.
IsZero(q) == q = <<>>

\* Long division of the limbs 1..i of q by the single limb d, most significant
\* limb first, rem being the remainder carried in from above.
RECURSIVE QuoLimbs(_, _, _, _)
QuoLimbs(q, i, rem, d) ==
    IF i = 0 THEN <<>>
    ELSE LET cur == rem * LimbBase + q[i]
         IN  Append(QuoLimbs(q, i - 1, cur % d, d), cur \div d)

\* Quantity.Quo: q := q / n2 (floor), or an error that leaves q as it was when
\* n2 is zero. n2 is only read. The divisors of the model have one limb.
Quo(q, n2) ==
    IF IsZero(n2) THEN [err |-> ErrQuo, q |-> q]
    ELSE [err |-> NoError, q |-> Normalize(QuoLimbs(q, Len(q), 0, n2[1]))]

\* Quantity.ToBigInt: the big.Int of the same value.
ToBigInt(q) == q

\* big.Int.IsInt64 of a non-negative x: x <= 2^63 - 1.
IsInt64(x) == Len(x) < 4 \/ (Len(x) = 4 /\ x[4] < 2 ^ 15)

\* x + carry, from limb i on.
RECURSIVE AddLimbs(_, _, _)
AddLimbs(x, i, carry) ==
    IF i > Len(x) THEN (IF carry = 0 THEN <<>> ELSE <<carry>>)
    ELSE LET s == x[i] + carry
         IN  <<s % LimbBase>> \o AddLimbs(x, i + 1, s \div LimbBase)

\* big.Int.Int64 of a non-negative x: the low 64 bits of x as a two's
\* complement number, which is x itself when x.IsInt64().
Int64(x) ==
    LET low == [i \in 1..4 |-> IF i <= Len(x) THEN x[i] ELSE 0]
        inv == [i \in 1..4 |-> (LimbBase - 1) - low[i]]
    IN  IF low[4] < 2 ^ 15
        THEN [neg |-> FALSE, mag |-> Normalize(low)]
        ELSE [neg |-> TRUE, mag |-> Normalize(AddLimbs(inv, 1, 1))]

\* A slip: the one free voting power of a zero quotient is missing.
VotingPowerFromStake_NoMinimum(t, unit) ==
    LET quo == Quo(Clone(t), unit)
    IN  IF quo.err # NoError
        THEN [power |-> Int64Of(0), err |-> ErrQuo, t |-> t, unit |-> unit]
        ELSE IF ~IsInt64(ToBigInt(quo.q))
        THEN [power |-> Int64Of(0), err |-> ErrTooManyBaseUnits, t |-> t, unit |-> unit]
        ELSE [power |-> Int64(ToBigInt(quo.q)), err |-> NoError, t |-> t, unit |-> unit]

\* The slip the comment of VotingPowerFromStake warns of: IsInt64 is skipped.
VotingPowerFromStake_SkipsIsInt64(t, unit) ==
    LET quo == Quo(Clone(t), unit)
    IN  IF quo.err # NoError
        THEN [power |-> Int64Of(0), err |-> ErrQuo, t |-> t, unit |-> unit]
        ELSE IF IsZero(quo.q)
        THEN [power |-> Int64Of(1), err |-> NoError, t |-> t, unit |-> unit]
        ELSE [power |-> Int64(ToBigInt(quo.q)), err |-> NoError, t |-> t, unit |-> unit]

\* A slip: the error of Quo is not looked at.
VotingPowerFromStake_IgnoresQuoError(t, unit) ==
    LET quo == Quo(Clone(t), unit)
    IN  IF IsZero(quo.q)
        THEN [power |-> Int64Of(1), err |-> NoError, t |-> t, unit |-> unit]
        ELSE IF ~IsInt64(ToBigInt(quo.q))
        THEN [power |-> Int64Of(0), err |-> ErrTooManyBaseUnits, t |-> t, unit |-> unit]
        ELSE [power |-> Int64(ToBigInt(quo.q)), err |-> NoError, t |-> t, unit |-> unit]

\* A slip: the division is done on t itself, not on a clone of it.
VotingPowerFromStake_NoClone(t, unit) ==
    LET quo == Quo(t, unit)
    IN  IF quo.err # NoError
        THEN [power |-> Int64Of(0), err |-> ErrQuo, t |-> quo.q, unit |-> unit]
        ELSE IF IsZero(quo.q)
        THEN [power |-> Int64Of(1), err |-> NoError, t |-> quo.q, unit |-> unit]
        ELSE IF ~IsInt64(ToBigInt(quo.q))
        THEN [power |-> Int64Of(0), err |-> ErrTooManyBaseUnits, t |-> quo.q, unit |-> unit]
        ELSE [power |-> Int64(ToBigInt(quo.q)), err |-> NoError, t |-> quo.q, unit |-> unit]

\* VotingPowerFromStake(t) with BaseUnitsPerVotingPower = unit: the power and
\* the error returned, and t and the unit as the call leaves them.
VotingPowerFromStake(t, unit) ==
    LET powerQ == Clone(t)
        quo == Quo(powerQ, unit)
    IN  IF quo.err # NoError
        THEN [power |-> Int64Of(0), err |-> ErrQuo, t |-> t, unit |-> unit]
        ELSE IF IsZero(quo.q)
        THEN [power |-> Int64Of(1), err |-> NoError, t |-> t, unit |-> unit]
        ELSE LET powerBI == ToBigInt(quo.q)
             IN  IF ~IsInt64(powerBI)
                 THEN [power |-> Int64Of(0), err |-> ErrTooManyBaseUnits,
                       t |-> t, unit |-> unit]
                 ELSE [power |-> Int64(powerBI), err |-> NoError, t |-> t, unit |-> unit]

NoResult == [power |-> Int64Of(0), err |-> NoError]

PowerIdle ==
    /\ stake = <<>>
    /\ BaseUnitsPerVotingPower = <<>>
    /\ vpRes = NoResult
    /\ vpCalls = 0

\* init() has run: BaseUnitsPerVotingPower.FromUint64(16).
PowerInit ==
    /\ stake \in Stakes
    /\ BaseUnitsPerVotingPower = QuantityOf(16)
    /\ vpRes = NoResult
    /\ vpCalls = 0

\* BaseUnitsPerVotingPower is an exported package variable: a test or another
\* package assigns it.
SetBaseUnitsPerVotingPower(u) ==
    /\ BaseUnitsPerVotingPower' = u
    /\ vpRes' = NoResult
    /\ vpCalls' = 0
    /\ UNCHANGED stake
    /\ UNCHANGED <<schedVars, textVars, paramsVars, lateVars>>

CallVotingPowerFromStake ==
    /\ vpCalls < MaxCalls
    /\ LET res == VotingPowerFromStake(stake, BaseUnitsPerVotingPower)
       IN  /\ vpRes' = [power |-> res.power, err |-> res.err]
           /\ stake' = res.t
           /\ BaseUnitsPerVotingPower' = res.unit
    /\ vpCalls' = vpCalls + 1
    /\ UNCHANGED <<schedVars, textVars, paramsVars, lateVars>>

PowerNext ==
    \/ \E u \in Units : SetBaseUnitsPerVotingPower(u)
    \/ CallVotingPowerFromStake

(***************************************************************************)
(* The text codecs of Role and CommitteeKind                               *)
(*                                                                         *)
(* A text is a string; the nil slice MarshalText returns with an error is  *)
(* None. MarshalText maps a value to its name and UnmarshalText maps a     *)
(* name to a value, each by its own switch.                                *)
(***************************************************************************)
\* Role and CommitteeKind are uint8: the values 0 .. MaxEnumValue are modelled,
\* those above the defined ones being the undefined values.
MaxEnumValue == 3

RoleValues == 0..MaxEnumValue
KindValues == 0..MaxEnumValue

DefinedRoles == {RoleInvalid, RoleWorker, RoleBackupWorker}
DefinedKinds == {KindInvalid, KindComputeExecutor}

RoleNames == {RoleInvalidName, RoleWorkerName, RoleBackupWorkerName}
KindNames == {KindInvalidName, KindComputeExecutorName}

\* The texts a decoder is handed: every name, and texts that are no name.
Texts == RoleNames \cup KindNames \cup {"", "Worker", "backup_worker", "compute", "[unknown role: 3]"}

ErrInvalidRole == "invalid role"

RoleMarshalText(r) ==
    CASE r = RoleInvalid -> [text |-> Some(RoleInvalidName), err |-> NoError]
      [] r = RoleWorker -> [text |-> Some(RoleWorkerName), err |-> NoError]
      [] r = RoleBackupWorker -> [text |-> Some(RoleBackupWorkerName), err |-> NoError]
      [] OTHER -> [text |-> None, err |-> ErrInvalidRole]

\* A slip: the case of RoleBackupWorkerName assigns RoleWorker.
RoleUnmarshalText_BackupAsWorker(r, text) ==
    CASE text = RoleWorkerName -> [r |-> RoleWorker, err |-> NoError]
      [] text = RoleBackupWorkerName -> [r |-> RoleWorker, err |-> NoError]
      [] OTHER -> [r |-> r, err |-> ErrInvalidRole]

\* A slip: the default case zeroes the receiver before it returns the error.
RoleUnmarshalText_DefaultsOnError(r, text) ==
    CASE text = RoleWorkerName -> [r |-> RoleWorker, err |-> NoError]
      [] text = RoleBackupWorkerName -> [r |-> RoleBackupWorker, err |-> NoError]
      [] OTHER -> [r |-> RoleInvalid, err |-> ErrInvalidRole]

\* (*r).UnmarshalText(text): the value *r holds after the call, and the error.
RoleUnmarshalText(r, text) ==
    CASE text = RoleWorkerName -> [r |-> RoleWorker, err |-> NoError]
      [] text = RoleBackupWorkerName -> [r |-> RoleBackupWorker, err |-> NoError]
      [] OTHER -> [r |-> r, err |-> ErrInvalidRole]

\* The error text of the CommitteeKind codec is "invalid role" too.
KindMarshalText(k) ==
    CASE k = KindInvalid -> [text |-> Some(KindInvalidName), err |-> NoError]
      [] k = KindComputeExecutor -> [text |-> Some(KindComputeExecutorName), err |-> NoError]
      [] OTHER -> [text |-> None, err |-> ErrInvalidRole]

\* (*k).UnmarshalText(text): the value *k holds after the call, and the error.
KindUnmarshalText(k, text) ==
    CASE text = KindComputeExecutorName -> [k |-> KindComputeExecutor, err |-> NoError]
      [] OTHER -> [k |-> k, err |-> ErrInvalidRole]

NoSource == [type |-> "none", val |-> 0]

TextIdle ==
    /\ role = RoleInvalid
    /\ kind = KindInvalid
    /\ wire = None
    /\ wireSrc = NoSource
    /\ textOp = "none"
    /\ textErr = NoError

\* The receivers hold any value before a decode.
TextInit ==
    /\ role \in RoleValues
    /\ kind \in KindValues
    /\ wire = None
    /\ wireSrc = NoSource
    /\ textOp = "none"
    /\ textErr = NoError

\* r.MarshalText() of a Role r: its output goes on the wire.
RoleMarshal(r) ==
    /\ LET res == RoleMarshalText(r)
       IN  /\ wire' = res.text
           /\ textErr' = res.err
    /\ wireSrc' = [type |-> "Role", val |-> r]
    /\ textOp' = "Role.MarshalText"
    /\ UNCHANGED <<role, kind>>
    /\ UNCHANGED <<schedVars, powerVars, paramsVars, lateVars>>

\* k.MarshalText() of a CommitteeKind k.
KindMarshal(k) ==
    /\ LET res == KindMarshalText(k)
       IN  /\ wire' = res.text
           /\ textErr' = res.err
    /\ wireSrc' = [type |-> "CommitteeKind", val |-> k]
    /\ textOp' = "CommitteeKind.MarshalText"
    /\ UNCHANGED <<role, kind>>
    /\ UNCHANGED <<schedVars, powerVars, paramsVars, lateVars>>

\* A text produced elsewhere arrives.
ReceiveText(t) ==
    /\ wire' = Some(t)
    /\ wireSrc' = [type |-> "received", val |-> 0]
    /\ textOp' = "receive"
    /\ textErr' = NoError
    /\ UNCHANGED <<role, kind>>
    /\ UNCHANGED <<schedVars, powerVars, paramsVars, lateVars>>

\* role.UnmarshalText(wire).
RoleUnmarshal ==
    /\ wire # None
    /\ LET res == RoleUnmarshalText(role, wire[1])
       IN  /\ role' = res.r
           /\ textErr' = res.err
    /\ textOp' = "Role.UnmarshalText"
    /\ UNCHANGED <<kind, wire, wireSrc>>
    /\ UNCHANGED <<schedVars, powerVars, paramsVars, lateVars>>

\* kind.UnmarshalText(wire).
KindUnmarshal ==
    /\ wire # None
    /\ LET res == KindUnmarshalText(kind, wire[1])
       IN  /\ kind' = res.k
           /\ textErr' = res.err
    /\ textOp' = "CommitteeKind.UnmarshalText"
    /\ UNCHANGED <<role, wire, wireSrc>>
    /\ UNCHANGED <<schedVars, powerVars, paramsVars, lateVars>>

TextNext ==
    \/ \E r \in RoleValues : RoleMarshal(r)
    \/ \E k \in KindValues : KindMarshal(k)
    \/ \E t \in Texts : ReceiveText(t)
    \/ RoleUnmarshal
    \/ KindUnmarshal

(***************************************************************************)
(* ConsensusParameters and ConsensusParameterChanges.Apply                 *)
(***************************************************************************)
\* The validator counts of the model are 0 .. MaxCount.
MaxCount == 2

\* Most Apply calls of one change.
MaxApplies == 2

Counts == 0..MaxCount

\* DebugForceElect: the empty map, or one node forced into a committee.
ForceElectMaps ==
    {{}, {<<"rt", "A", [Kind |-> KindComputeExecutor, Roles |-> <<RoleWorker>>,
                        IsScheduler |-> TRUE]>>}}

ConsensusParameters ==
    [MinValidators : Counts, MaxValidators : Counts,
     MaxValidatorsPerEntity : {1, 2}, DebugBypassStake : BOOLEAN,
     RewardFactorEpochElectionAny : {QuantityOf(0), QuantityOf(1)},
     DebugForceElect : ForceElectMaps, DebugAllowWeakAlpha : BOOLEAN]

\* A *int field is None (nil) or Some of the number it points to.
OptCounts == {None} \cup {Some(n) : n \in Counts}

ConsensusParameterChanges == [MinValidators : OptCounts, MaxValidators : OptCounts]

\* A slip: MaxValidators is assigned from the change's MinValidators.
Apply_MaxFromMin(c, p) ==
    LET p1 == IF c.MinValidators # None
              THEN [p EXCEPT !.MinValidators = c.MinValidators[1]] ELSE p
        p2 == IF c.MaxValidators # None
              THEN [p1 EXCEPT !.MaxValidators =
                        IF c.MinValidators # None THEN c.MinValidators[1]
                        ELSE c.MaxValidators[1]]
              ELSE p1
    IN  [params |-> p2, err |-> NoError]

ErrInconsistent == "min_validators exceeds max_validators"

\* A change of the code: Apply validates the merged pair and rejects a change
\* that would leave MinValidators above MaxValidators.
Apply_RejectsInconsistent(c, p) ==
    LET p1 == IF c.MinValidators # None
              THEN [p EXCEPT !.MinValidators = c.MinValidators[1]] ELSE p
        p2 == IF c.MaxValidators # None
              THEN [p1 EXCEPT !.MaxValidators = c.MaxValidators[1]] ELSE p1
    IN  IF p2.MinValidators > p2.MaxValidators
        THEN [params |-> p, err |-> ErrInconsistent]
        ELSE [params |-> p2, err |-> NoError]

\* c.Apply(params): the parameters as the call leaves them, and the error.
Apply(c, p) ==
    LET p1 == IF c.MinValidators # None
              THEN [p EXCEPT !.MinValidators = c.MinValidators[1]] ELSE p
        p2 == IF c.MaxValidators # None
              THEN [p1 EXCEPT !.MaxValidators = c.MaxValidators[1]] ELSE p1
    IN  [params |-> p2, err |-> NoError]

NoChange == [MinValidators |-> None, MaxValidators |-> None]

ParamsIdle ==
    /\ params = [MinValidators |-> 0, MaxValidators |-> 0, MaxValidatorsPerEntity |-> 1,
                 DebugBypassStake |-> FALSE, RewardFactorEpochElectionAny |-> QuantityOf(0),
                 DebugForceElect |-> {}, DebugAllowWeakAlpha |-> FALSE]
    /\ change = NoChange
    /\ applied = 0
    /\ applyErr = NoError

ParamsInit ==
    /\ params \in ConsensusParameters
    /\ change = NoChange
    /\ applied = 0
    /\ applyErr = NoError

\* A parameter change proposal arrives.
Propose(c) ==
    /\ change' = c
    /\ applied' = 0
    /\ applyErr' = NoError
    /\ UNCHANGED params
    /\ UNCHANGED <<schedVars, powerVars, textVars, lateVars>>

\* change.Apply(&params).
CallApply ==
    /\ applied < MaxApplies
    /\ LET res == Apply(change, params)
       IN  /\ params' = res.params
           /\ applyErr' = res.err
    /\ applied' = applied + 1
    /\ UNCHANGED change
    /\ UNCHANGED <<schedVars, powerVars, textVars, lateVars>>

ParamsNext ==
    \/ \E c \in ConsensusParameterChanges : Propose(c)
    \/ CallApply

(***************************************************************************)
(* Committee.EncodedMembersHash                                            *)
(*                                                                         *)
(* hash.NewFrom(v) is the digest of the CBOR encoding of v. The encoding   *)
(* of a value is the tuple of the encodings of its parts, in order, and    *)
(* the digest is taken to be free of collisions: it stands for the bytes   *)
(* it was computed from.                                                   *)
(***************************************************************************)
\* Most members of a committee whose members are hashed.
MaxHashMembers == 2

HashNodes == [Role : {RoleWorker, RoleBackupWorker}, PublicKey : {"A", "B"}]

HashMemberSeqs == UNION {[1..n -> HashNodes] : n \in 0..MaxHashMembers}

\* Kind, RuntimeID and ValidFor of the committees hashed: two of each.
HashCommittees ==
    {[Kind |-> h[1], Members |-> m, RuntimeID |-> h[2], ValidFor |-> h[3]] :
        h \in {<<KindComputeExecutor, "rt", 1>>, <<KindInvalid, "rt2", 2>>},
        m \in HashMemberSeqs}

\* cbor.Marshal of a *CommitteeNode: its fields.
EncodeNode(n) == <<n.Role, n.PublicKey>>

\* cbor.Marshal of a []*CommitteeNode: the array of the encoded nodes, in the
\* order of the slice.
EncodeMembers(members) == [i \in 1..Len(members) |-> EncodeNode(members[i])]

\* hash.NewFrom of a value whose encoding is `bytes`.
HashOfBytes(bytes) == [digest |-> bytes]

\* The order of the nodes that a canonical form would sort by.
NodeRank(n) == (IF n.PublicKey = "A" THEN 0 ELSE 10) + n.Role

\* The members in the order of their rank.
SortedMembers(members) ==
    CHOOSE s \in [1..Len(members) -> HashNodes] :
        /\ \A x \in HashNodes :
               Cardinality({i \in 1..Len(members) : s[i] = x})
                   = Cardinality({i \in 1..Len(members) : members[i] = x})
        /\ \A i \in 1..(Len(members) - 1) : NodeRank(s[i]) <= NodeRank(s[i + 1])

\* A slip: the members are put in a canonical order before they are hashed.
EncodedMembersHash_Canonical(c) == HashOfBytes(EncodeMembers(SortedMembers(c.Members)))

\* c.EncodedMembersHash(): hash.NewFrom(c.Members).
EncodedMembersHash(c) == HashOfBytes(EncodeMembers(c.Members))

HashIdle ==
    /\ cmtA = [Kind |-> KindInvalid, Members |-> <<>>, RuntimeID |-> "rt", ValidFor |-> 0]
    /\ cmtB = [Kind |-> KindInvalid, Members |-> <<>>, RuntimeID |-> "rt", ValidFor |-> 0]
    /\ hashOfA = None
    /\ hashOfB = None

HashInit ==
    /\ cmtA \in HashCommittees
    /\ cmtB \in HashCommittees
    /\ hashOfA = None
    /\ hashOfB = None

\* cmtA.EncodedMembersHash().
HashCommitteeA ==
    /\ hashOfA = None
    /\ hashOfA' = Some(EncodedMembersHash(cmtA))
    /\ UNCHANGED <<cmtA, cmtB, hashOfB>>
    /\ UNCHANGED <<earlyVars, versionVars, epochVars, inMsgVars, watchVars>>

\* cmtB.EncodedMembersHash().
HashCommitteeB ==
    /\ hashOfB = None
    /\ hashOfB' = Some(EncodedMembersHash(cmtB))
    /\ UNCHANGED <<cmtA, cmtB, hashOfA>>
    /\ UNCHANGED <<earlyVars, versionVars, epochVars, inMsgVars, watchVars>>

HashNext ==
    \/ HashCommitteeA
    \/ HashCommitteeB

(***************************************************************************)
(* cbor.GetVersion                                                         *)
(*                                                                         *)
(* A payload is malformed CBOR, well-formed CBOR that is no map, or a map, *)
(* with or without a field "v" and with or without other fields.          *)
(***************************************************************************)
\* math.MaxUint16.
invalidVersion == 65535

\* The versions 0 .. MaxLowVersion and 65535 - MaxLowVersion .. 65535 are in
\* the payloads of the model.
MaxLowVersion == 30

\* The numbers a field "v" holds: 16-bit versions and, with -1 and 2^16, two
\* numbers that a uint16 cannot hold.
FieldValues ==
    (0..MaxLowVersion) \cup ((invalidVersion - MaxLowVersion)..invalidVersion)
        \cup {-1, invalidVersion + 1}

Payloads ==
    [form : {"map"}, hasV : {TRUE}, v : FieldValues, extra : BOOLEAN]
        \cup [form : {"map"}, hasV : {FALSE}, v : {0}, extra : BOOLEAN]
        \cup [form : {"malformed", "notmap"}, hasV : {FALSE}, v : {0}, extra : {FALSE}]

ErrInvalidVersion == "cbor: missing or invalid version"
ErrMalformed == "cbor: malformed data"
ErrUnmarshalType == "cbor: cannot unmarshal into Go value"

\* decModeVersioned.Unmarshal(data, &vblob): a field "v" that a uint16 holds
\* is stored, other fields are ignored (ExtraDecErrorNone), and a vblob that
\* the data has no "v" for is left as it was.
UnmarshalVersioned(data, vblob) ==
    IF data.form = "malformed" THEN [err |-> ErrMalformed, vblob |-> vblob]
    ELSE IF data.form # "map" THEN [err |-> ErrUnmarshalType, vblob |-> vblob]
    ELSE IF ~data.hasV THEN [err |-> NoError, vblob |-> vblob]
    ELSE IF data.v < 0 \/ data.v > 2 ^ 16 - 1
    THEN [err |-> ErrUnmarshalType, vblob |-> vblob]
    ELSE [err |-> NoError, vblob |-> [V |-> data.v]]

\* A slip: vblob starts as the zero Versioned, so a missing version reads as 0.
GetVersion_ZeroDefault(data) ==
    LET r == UnmarshalVersioned(data, [V |-> 0])
    IN  IF r.err # NoError THEN [v |-> 0, err |-> r.err]
        ELSE [v |-> r.vblob.V, err |-> NoError]

GetVersion(data) ==
    LET r == UnmarshalVersioned(data, [V |-> invalidVersion])
    IN  IF r.err # NoError THEN [v |-> 0, err |-> r.err]
        ELSE IF r.vblob.V = invalidVersion THEN [v |-> 0, err |-> ErrInvalidVersion]
        ELSE [v |-> r.vblob.V, err |-> NoError]

NoVersion == [v |-> 0, err |-> NoError]

VersionIdle ==
    /\ payload = [form |-> "malformed", hasV |-> FALSE, v |-> 0, extra |-> FALSE]
    /\ verRes = NoVersion
    /\ verCalled = FALSE

VersionInit ==
    /\ payload \in Payloads
    /\ verRes = NoVersion
    /\ verCalled = FALSE

\* Another serialized blob arrives.
ReceivePayload(data) ==
    /\ payload' = data
    /\ verRes' = NoVersion
    /\ verCalled' = FALSE
    /\ UNCHANGED <<earlyVars, hashVars, epochVars, inMsgVars, watchVars>>

\* cbor.GetVersion(payload).
CallGetVersion ==
    /\ ~verCalled
    /\ verRes' = GetVersion(payload)
    /\ verCalled' = TRUE
    /\ UNCHANGED payload
    /\ UNCHANGED <<earlyVars, hashVars, epochVars, inMsgVars, watchVars>>

VersionNext ==
    \/ \E data \in Payloads : ReceivePayload(data)
    \/ CallGetVersion

(***************************************************************************)
(* Scenario.initialEpochTransitionsWith                                    *)
(*                                                                         *)
(* The function runs from one external call to the next: WaitReady of a    *)
(* node, SetEpoch, WaitNodesRegistered, rand.Read. Each call but rand.Read *)
(* succeeds or fails, and a failure makes the function return.             *)
(***************************************************************************)
\* Most validators, most key managers and most compute workers of a network.
MaxNodes == 1

\* rand.Read gives a byte 0 .. MaxRandByte.
MaxRandByte == 7

BackendVRF == "vrf"
BackendInsecure == "insecure"

\* The NoAutoStart flags of the fixtures of the nodes of one kind.
FixtureFlags == UNION {[1..n -> BOOLEAN] : n \in 0..MaxNodes}

EpochConfigs ==
    [baseEpoch : {0, 7},
     Validators : FixtureFlags, Keymanagers : FixtureFlags, ComputeWorkers : FixtureFlags,
     Byzantine : BOOLEAN,
     Backend : {"", BackendVRF, BackendInsecure},
     debugNoRandomInitialEpoch : BOOLEAN, debugWeakAlphaOk : BOOLEAN]

ErrWaitValidator == "failed to wait for a validator"
ErrWaitKeymanager == "failed to wait for a key manager"
ErrWaitComputeWorker == "failed to wait for a compute worker"
ErrWaitNodes == "failed to wait for nodes"
ErrSetEpoch == "failed to set epoch"

\* A slip: the loops do not skip the nodes whose fixture has NoAutoStart set.
NextAutoStart_NoSkip(flags, i) == i

\* The first node from i on whose fixture does not have NoAutoStart set, or
\* Len(flags) + 1: the `continue` of the three loops.
RECURSIVE NextAutoStart(_, _)
NextAutoStart(flags, i) ==
    IF i > Len(flags) THEN i
    ELSE IF flags[i] THEN NextAutoStart(flags, i + 1)
    ELSE i

Point(phase, i) == [phase |-> phase, i |-> i]

\* The external call the function makes next when control reaches `phase`
\* (and node or skip i of it), or the point "return", with numSkips = skips.
RECURSIVE NextCall(_, _, _, _)
NextCall(cfg, phase, i, skips) ==
    CASE phase = "validators" ->
           IF Len(cfg.Keymanagers) = 0 THEN Point("epoch1", 0)
           ELSE LET j == NextAutoStart(cfg.Validators, i)
                IN  IF j <= Len(cfg.Validators) THEN Point("validators", j)
                    ELSE NextCall(cfg, "keymanagers", 1, skips)
      [] phase = "keymanagers" ->
           LET j == NextAutoStart(cfg.Keymanagers, i)
           IN  IF j <= Len(cfg.Keymanagers) THEN Point("keymanagers", j)
               ELSE Point("epoch1", 0)
      [] phase = "compute" ->
           LET j == NextAutoStart(cfg.ComputeWorkers, i)
           IN  IF j <= Len(cfg.ComputeWorkers) THEN Point("compute", j)
               ELSE NextCall(cfg, "byzantine", 0, skips)
      [] phase = "byzantine" ->
           IF cfg.Byzantine THEN Point("byzantine", 0) ELSE Point("epoch2", 0)
      [] phase = "epoch3" ->
           IF cfg.Backend \notin {"", BackendVRF} THEN Point("return", 0)
           ELSE IF ~cfg.debugWeakAlphaOk THEN Point("epoch3", 0)
           ELSE NextCall(cfg, "rand", 0, skips)
      [] phase = "rand" ->
           IF ~cfg.debugNoRandomInitialEpoch THEN Point("rand", 0) ELSE Point("return", 0)
      [] phase = "skip" ->
           IF i <= skips THEN Point("skip", i) ELSE Point("return", 0)
      [] OTHER -> Point(phase, i)

\* Where control goes after the call at point pc has succeeded.
AfterCall(cfg, pc, skips) ==
    CASE pc.phase \in {"validators", "keymanagers", "compute"} ->
           NextCall(cfg, pc.phase, pc.i + 1, skips)
      [] pc.phase = "epoch1" -> NextCall(cfg, "compute", 1, skips)
      [] pc.phase = "byzantine" -> Point("epoch2", 0)
      [] pc.phase = "epoch2" -> NextCall(cfg, "epoch3", 0, skips)
      [] pc.phase = "epoch3" -> Point("epoch4", 0)
      [] pc.phase = "epoch4" -> NextCall(cfg, "rand", 0, skips)
      [] pc.phase = "rand" -> NextCall(cfg, "skip", 1, skips)
      [] pc.phase = "skip" -> NextCall(cfg, "skip", pc.i + 1, skips)

\* A slip: the byte is not brought into 1 .. 4.
NumSkips_NoOffset(randByte) == randByte % 4

\* numSkips := (int)(randByte[0]&3) + 1.
NumSkips(randByte) == (randByte % 4) + 1

\* A slip: epoch is incremented whether or not SetEpoch succeeded.
AdvanceEpoch_CountsFailed(epoch, ok) ==
    [epoch |-> epoch + 1, err |-> IF ok THEN NoError ELSE ErrSetEpoch]

\* The closure advanceEpoch: SetEpoch(ctx, epoch), and epoch++ when it
\* succeeded.
AdvanceEpoch(epoch, ok) ==
    IF ok THEN [epoch |-> epoch + 1, err |-> NoError]
    ELSE [epoch |-> epoch, err |-> ErrSetEpoch]

Event(op, what, arg, ok) == [op |-> op, what |-> what, arg |-> arg, ok |-> ok]

EpochIdle ==
    /\ etCfg = [baseEpoch |-> 0, Validators |-> <<>>, Keymanagers |-> <<>>,
                ComputeWorkers |-> <<>>, Byzantine |-> FALSE, Backend |-> "",
                debugNoRandomInitialEpoch |-> FALSE, debugWeakAlphaOk |-> FALSE]
    /\ etPc = Point("return", 0)
    /\ etEpoch = 0
    /\ etSkips = 0
    /\ etLog = <<>>
    /\ etRes = None

\* initialEpochTransitionsWith(ctx, fixture, baseEpoch) is entered:
\* epoch := baseEpoch + 1.
EpochInit ==
    /\ etCfg \in EpochConfigs
    /\ etPc = NextCall(etCfg, "validators", 1, 0)
    /\ etEpoch = etCfg.baseEpoch + 1
    /\ etSkips = 0
    /\ etLog = <<>>
    /\ etRes = None

\* The function goes on to the call at point pc, or returns (epoch, nil).
Continue(pc, epoch) ==
    /\ etPc' = pc
    /\ etRes' = IF pc.phase = "return" THEN Some([epoch |-> epoch, err |-> NoError]) ELSE None

\* The function returns (epoch, err).
Fail(epoch, err) ==
    /\ etPc' = Point("return", 0)
    /\ etRes' = Some([epoch |-> epoch, err |-> err])

\* n.WaitReady(ctx) of a validator, a key manager or a compute worker.
WaitReady(ok) ==
    /\ etRes = None
    /\ etPc.phase \in {"validators", "keymanagers", "compute"}
    /\ etLog' = Append(etLog, Event("WaitReady", etPc.phase, etPc.i, ok))
    /\ IF ok THEN Continue(AfterCall(etCfg, etPc, etSkips), etEpoch)
       ELSE Fail(etEpoch, CASE etPc.phase = "validators" -> ErrWaitValidator
                            [] etPc.phase = "keymanagers" -> ErrWaitKeymanager
                            [] OTHER -> ErrWaitComputeWorker)
    /\ UNCHANGED <<etCfg, etEpoch, etSkips>>
    /\ UNCHANGED <<earlyVars, hashVars, versionVars, inMsgVars, watchVars>>

\* sc.Net.Controller().WaitNodesRegistered(ctx, n).
WaitNodesRegistered(ok) ==
    /\ etRes = None
    /\ etPc.phase = "byzantine"
    /\ etLog' = Append(etLog, Event("WaitNodesRegistered", "nodes", 0, ok))
    /\ IF ok THEN Continue(AfterCall(etCfg, etPc, etSkips), etEpoch)
       ELSE Fail(etEpoch, ErrWaitNodes)
    /\ UNCHANGED <<etCfg, etEpoch, etSkips>>
    /\ UNCHANGED <<earlyVars, hashVars, versionVars, inMsgVars, watchVars>>

\* advanceEpoch(): SetEpoch(ctx, epoch).
SetEpoch(ok) ==
    /\ etRes = None
    /\ etPc.phase \in {"epoch1", "epoch2", "epoch3", "epoch4", "skip"}
    /\ etLog' = Append(etLog, Event("SetEpoch", "epoch", etEpoch, ok))
    /\ LET r == AdvanceEpoch(etEpoch, ok)
       IN  /\ etEpoch' = r.epoch
           /\ IF r.err = NoError THEN Continue(AfterCall(etCfg, etPc, etSkips), r.epoch)
              ELSE Fail(r.epoch, r.err)
    /\ UNCHANGED <<etCfg, etSkips>>
    /\ UNCHANGED <<earlyVars, hashVars, versionVars, inMsgVars, watchVars>>

\* rand.Read(randByte[:]) and numSkips.
RandRead(randByte) ==
    /\ etRes = None
    /\ etPc.phase = "rand"
    /\ etSkips' = NumSkips(randByte)
    /\ etLog' = Append(etLog, Event("rand.Read", "byte", randByte, TRUE))
    /\ Continue(AfterCall(etCfg, etPc, NumSkips(randByte)), etEpoch)
    /\ UNCHANGED <<etCfg, etEpoch>>
    /\ UNCHANGED <<earlyVars, hashVars, versionVars, inMsgVars, watchVars>>

EpochNext ==
    \/ \E ok \in BOOLEAN : WaitReady(ok)
    \/ \E ok \in BOOLEAN : WaitNodesRegistered(ok)
    \/ \E ok \in BOOLEAN : SetEpoch(ok)
    \/ \E randByte \in 0..MaxRandByte : RandRead(randByte)

(***************************************************************************)
(* Scenario.submitRuntimeInMsg                                             *)
(*                                                                         *)
(* The function signs a SubmitMsg transaction, subscribes to the roothash  *)
(* events of the runtime, submits the transaction and waits in a select on *)
(* the subscription's channel and on a context with a timeout. The node    *)
(* puts events into the channel while the subscription is open; the clock  *)
(* and the caller's context run on their own.                              *)
(***************************************************************************)
\* Most events the node emits during one call.
MaxEvents == 2

\* The Tag of the submitted message, and the tag the event must carry.
ExpectedTag == 42

\* context.WithTimeout(ctx, 30*time.Second).
TimeoutSeconds == 30

\* staking.NewAddress(signer.Public()), and the address of someone else.
CallerAddr == "signer"
OtherAddr == "other"

\* A roothash event: InMsgProcessed is nil, or holds a caller and a tag.
RoothashEvents ==
    {[InMsgProcessed |-> None]}
       \cup {[InMsgProcessed |-> Some([Caller |-> c, Tag |-> t])] :
                c \in {CallerAddr, OtherAddr}, t \in {ExpectedTag, ExpectedTag + 1}}

ErrNoController == "client controller not available"
ErrSign == "failed to sign SubmitMsg transaction"
ErrWatchEvents == "failed to watch events"
ErrSubmitTx == "failed to submit SubmitMsg transaction"
ErrUnexpectedCaller == "unexpected caller address"
ErrUnexpectedTag == "unexpected tag"
Canceled == "context canceled"
DeadlineExceeded == "context deadline exceeded"

\* A slip: the subscription is left open when the function returns.
DeferredClose_Never(sub) == sub

\* defer sub.Close(): runs on every return after the subscription was made.
DeferredClose(sub) == IF sub = "open" THEN "closed" ELSE sub

\* A slip: the caller of the event is not compared.
CheckEvent_IgnoresCaller(ev) ==
    IF ev.InMsgProcessed[1].Tag # ExpectedTag THEN ErrUnexpectedTag
    ELSE NoError

\* The two checks made on an event whose InMsgProcessed is present.
CheckEvent(ev) ==
    IF ev.InMsgProcessed[1].Caller # CallerAddr THEN ErrUnexpectedCaller
    ELSE IF ev.InMsgProcessed[1].Tag # ExpectedTag THEN ErrUnexpectedTag
    ELSE NoError

Call(op, ok) == [op |-> op, ok |-> ok]

InMsgIdle ==
    /\ imCtrl = FALSE
    /\ imPc = "done"
    /\ imSub = "none"
    /\ imCh = <<>>
    /\ imRecv = <<>>
    /\ imClock = 0
    /\ imCtxErr = NoError
    /\ imTrace = <<>>
    /\ imRes = None

\* submitRuntimeInMsg(ctx, id, nonce, method, args) is entered.
InMsgInit ==
    /\ imCtrl \in BOOLEAN
    /\ imPc = "start"
    /\ imSub = "none"
    /\ imCh = <<>>
    /\ imRecv = <<>>
    /\ imClock = 0
    /\ imCtxErr = NoError
    /\ imTrace = <<>>
    /\ imRes = None

\* The function returns err, after the deferred calls extra has recorded.
Return(err, trace) ==
    /\ imRes' = Some(err)
    /\ imPc' = "done"
    /\ imSub' = DeferredClose(imSub)
    /\ imTrace' = IF DeferredClose(imSub) # imSub THEN Append(trace, Call("Close", TRUE))
                  ELSE trace

\* ctrl == nil.
NoController ==
    /\ imPc = "start"
    /\ ~imCtrl
    /\ Return(ErrNoController, imTrace)
    /\ UNCHANGED <<imCtrl, imCh, imRecv, imClock, imCtxErr>>
    /\ UNCHANGED <<earlyVars, hashVars, versionVars, epochVars, watchVars>>

\* transaction.Sign(signer, tx).
Sign(ok) ==
    /\ imPc = "start"
    /\ imCtrl
    /\ IF ok THEN /\ imPc' = "signed"
                  /\ imTrace' = Append(imTrace, Call("Sign", TRUE))
                  /\ UNCHANGED <<imSub, imRes>>
       ELSE Return(ErrSign, Append(imTrace, Call("Sign", FALSE)))
    /\ UNCHANGED <<imCtrl, imCh, imRecv, imClock, imCtxErr>>
    /\ UNCHANGED <<earlyVars, hashVars, versionVars, epochVars, watchVars>>

\* ctrl.Roothash.WatchEvents(ctx, id), and defer sub.Close().
WatchEvents(ok) ==
    /\ imPc = "signed"
    /\ IF ok THEN /\ imPc' = "watching"
                  /\ imSub' = "open"
                  /\ imTrace' = Append(imTrace, Call("WatchEvents", TRUE))
                  /\ UNCHANGED imRes
       ELSE Return(ErrWatchEvents, Append(imTrace, Call("WatchEvents", FALSE)))
    /\ UNCHANGED <<imCtrl, imCh, imRecv, imClock, imCtxErr>>
    /\ UNCHANGED <<earlyVars, hashVars, versionVars, epochVars, watchVars>>

\* ctrl.Consensus.SubmitTx(ctx, sigTx), and context.WithTimeout.
SubmitTx(ok) ==
    /\ imPc = "watching"
    /\ IF ok THEN /\ imPc' = "waiting"
                  /\ imTrace' = Append(imTrace, Call("SubmitTx", TRUE))
                  /\ UNCHANGED <<imSub, imRes>>
       ELSE Return(ErrSubmitTx, Append(imTrace, Call("SubmitTx", FALSE)))
    /\ UNCHANGED <<imCtrl, imCh, imRecv, imClock, imCtxErr>>
    /\ UNCHANGED <<earlyVars, hashVars, versionVars, epochVars, watchVars>>

\* case ev := <-ch.
ReceiveEvent ==
    /\ imPc = "waiting"
    /\ imCh # <<>>
    /\ LET ev == Head(imCh)
       IN  /\ imRecv' = Append(imRecv, ev)
           /\ imCh' = Tail(imCh)
           /\ IF ev.InMsgProcessed = None
              THEN UNCHANGED <<imPc, imSub, imTrace, imRes>>
              ELSE Return(CheckEvent(ev), imTrace)
    /\ UNCHANGED <<imCtrl, imClock, imCtxErr>>
    /\ UNCHANGED <<earlyVars, hashVars, versionVars, epochVars, watchVars>>

\* case <-ctx.Done().
CtxDone ==
    /\ imPc = "waiting"
    /\ imCtxErr # NoError
    /\ Return(imCtxErr, imTrace)
    /\ UNCHANGED <<imCtrl, imCh, imRecv, imClock, imCtxErr>>
    /\ UNCHANGED <<earlyVars, hashVars, versionVars, epochVars, watchVars>>

\* The node emits a roothash event of the runtime.
EmitEvent(ev) ==
    /\ imSub = "open"
    /\ Len(imRecv) + Len(imCh) < MaxEvents
    /\ imCh' = Append(imCh, ev)
    /\ UNCHANGED <<imCtrl, imPc, imSub, imRecv, imClock, imCtxErr, imTrace, imRes>>
    /\ UNCHANGED <<earlyVars, hashVars, versionVars, epochVars, watchVars>>

\* A second passes; the timeout's context is done after TimeoutSeconds.
Tick ==
    /\ imPc = "waiting"
    /\ imCtxErr = NoError
    /\ imClock < TimeoutSeconds
    /\ imClock' = imClock + 1
    /\ imCtxErr' = IF imClock + 1 = TimeoutSeconds THEN DeadlineExceeded ELSE NoError
    /\ UNCHANGED <<imCtrl, imPc, imSub, imCh, imRecv, imTrace, imRes>>
    /\ UNCHANGED <<earlyVars, hashVars, versionVars, epochVars, watchVars>>

\* The caller's context is cancelled, or its own deadline passes.
ParentDone(err) ==
    /\ imPc # "done"
    /\ imCtxErr = NoError
    /\ imCtxErr' = err
    /\ UNCHANGED <<imCtrl, imPc, imSub, imCh, imRecv, imClock, imTrace, imRes>>
    /\ UNCHANGED <<earlyVars, hashVars, versionVars, epochVars, watchVars>>

InMsgNext ==
    \/ NoController
    \/ \E ok \in BOOLEAN : Sign(ok)
    \/ \E ok \in BOOLEAN : WatchEvents(ok)
    \/ \E ok \in BOOLEAN : SubmitTx(ok)
    \/ ReceiveEvent
    \/ CtxDone
    \/ \E ev \in RoothashEvents : EmitEvent(ev)
    \/ Tick
    \/ \E err \in {Canceled, DeadlineExceeded} : ParentDone(err)

(***************************************************************************)
(* Backend.WatchCommittees                                                 *)
(*                                                                         *)
(* The interface only declares the method; the service behind it is the    *)
(* one the specification describes: a cache of the active epoch's          *)
(* committees and a subscriber registry under one snapshot lock, and one   *)
(* buffered channel per subscriber out of which delivery runs on its own.  *)
(***************************************************************************)
\* The last epoch elected.
MaxEpoch == 3

Subscribers == {"s1", "s2"}

Runtimes == <<"rt1", "rt2">>

\* The committees one election produces: one per runtime, valid for epoch.
Elect(epoch) == [i \in 1..Len(Runtimes) |-> [RuntimeID |-> Runtimes[i], ValidFor |-> epoch]]

ValidForEpoch(c, epoch) == c.ValidFor = epoch

\* A slip: a new subscriber is sent nothing on subscription.
Replay_Nothing(cache, epoch) == <<>>

\* Upon subscription, all committees for the current epoch are sent.
RECURSIVE Replay(_, _)
Replay(cache, epoch) ==
    IF cache = <<>> THEN <<>>
    ELSE IF ValidForEpoch(Head(cache), epoch)
         THEN <<Head(cache)>> \o Replay(Tail(cache), epoch)
         ELSE Replay(Tail(cache), epoch)

\* A slip: cancelling leaves the subscriber's buffer as it is.
ReleaseBuffer_Keeps(buf) == buf

\* Cancelling releases the subscriber's buffer.
ReleaseBuffer(buf) == <<>>

NewSubscriber == [state |-> "new", since |-> 0, raced |-> FALSE, until |-> 0]

\* The subscribers in the registry.
Registered == {s \in Subscribers : wcSub[s].state \in {"active", "cancelling"}}

WatchIdle ==
    /\ wcEpoch = 0
    /\ wcCache = <<>>
    /\ wcLock = "free"
    /\ wcDone = {}
    /\ wcSub = [s \in Subscribers |-> NewSubscriber]
    /\ wcBuf = [s \in Subscribers |-> <<>>]
    /\ wcGot = [s \in Subscribers |-> <<>>]

\* The service runs in its first epoch, with nobody subscribed.
WatchInit ==
    /\ wcEpoch = 1
    /\ wcCache = Elect(1)
    /\ wcLock = "free"
    /\ wcDone = {}
    /\ wcSub = [s \in Subscribers |-> NewSubscriber]
    /\ wcBuf = [s \in Subscribers |-> <<>>]
    /\ wcGot = [s \in Subscribers |-> <<>>]

\* WatchCommittees(ctx): under the lock the subscriber is added and the
\* committees of the active epoch are put into its channel.
Subscribe(s) ==
    /\ wcSub[s].state = "new"
    /\ wcLock = "free"
    /\ wcSub' = [wcSub EXCEPT ![s] = [@ EXCEPT !.state = "active", !.since = wcEpoch]]
    /\ wcBuf' = [wcBuf EXCEPT ![s] = Replay(wcCache, wcEpoch)]
    /\ UNCHANGED <<wcEpoch, wcCache, wcLock, wcDone, wcGot>>
    /\ UNCHANGED <<earlyVars, hashVars, versionVars, epochVars, inMsgVars>>

\* An epoch transition: the election's committees replace the cache and
\* their publication starts, under the lock.
BeginPublish ==
    /\ wcLock = "free"
    /\ wcEpoch < MaxEpoch
    /\ wcEpoch' = wcEpoch + 1
    /\ wcCache' = Elect(wcEpoch + 1)
    /\ wcLock' = "publisher"
    /\ wcDone' = {}
    /\ UNCHANGED <<wcSub, wcBuf, wcGot>>
    /\ UNCHANGED <<earlyVars, hashVars, versionVars, epochVars, inMsgVars>>

\* The publication puts the new committees into one subscriber's channel.
PublishTo(s) ==
    /\ wcLock = "publisher"
    /\ s \in Registered \ wcDone
    /\ wcBuf' = [wcBuf EXCEPT ![s] = @ \o wcCache]
    /\ wcDone' = wcDone \cup {s}
    /\ UNCHANGED <<wcEpoch, wcCache, wcLock, wcSub, wcGot>>
    /\ UNCHANGED <<earlyVars, hashVars, versionVars, epochVars, inMsgVars>>

\* The publication has reached every subscriber and gives up the lock.
EndPublish ==
    /\ wcLock = "publisher"
    /\ Registered \subseteq wcDone
    /\ wcLock' = "free"
    /\ wcDone' = {}
    /\ UNCHANGED <<wcEpoch, wcCache, wcSub, wcBuf, wcGot>>
    /\ UNCHANGED <<earlyVars, hashVars, versionVars, epochVars, inMsgVars>>

\* sub.Close() is called; a publication may be in flight.
CancelCall(s) ==
    /\ wcSub[s].state = "active"
    /\ wcSub' = [wcSub EXCEPT ![s] = [@ EXCEPT !.state = "cancelling",
                                                !.raced = (wcLock = "publisher")]]
    /\ UNCHANGED <<wcEpoch, wcCache, wcLock, wcDone, wcBuf, wcGot>>
    /\ UNCHANGED <<earlyVars, hashVars, versionVars, epochVars, inMsgVars>>

\* sub.Close() returns: under the lock the subscriber has been removed and
\* its buffer released.
CancelReturn(s) ==
    /\ wcSub[s].state = "cancelling"
    /\ wcLock = "free"
    /\ wcSub' = [wcSub EXCEPT ![s] = [@ EXCEPT !.state = "cancelled", !.until = wcEpoch]]
    /\ wcBuf' = [wcBuf EXCEPT ![s] = ReleaseBuffer(@)]
    /\ UNCHANGED <<wcEpoch, wcCache, wcLock, wcDone, wcGot>>
    /\ UNCHANGED <<earlyVars, hashVars, versionVars, epochVars, inMsgVars>>

\* A subscriber takes the next committee out of its channel.
Deliver(s) ==
    /\ wcBuf[s] # <<>>
    /\ wcGot' = [wcGot EXCEPT ![s] = Append(@, Head(wcBuf[s]))]
    /\ wcBuf' = [wcBuf EXCEPT ![s] = Tail(@)]
    /\ UNCHANGED <<wcEpoch, wcCache, wcLock, wcDone, wcSub>>
    /\ UNCHANGED <<earlyVars, hashVars, versionVars, epochVars, inMsgVars>>

WatchNext ==
    \/ \E s \in Subscribers : Subscribe(s)
    \/ BeginPublish
    \/ \E s \in Subscribers : PublishTo(s)
    \/ EndPublish
    \/ \E s \in Subscribers : CancelCall(s)
    \/ \E s \in Subscribers : CancelReturn(s)
    \/ \E s \in Subscribers : Deliver(s)

(***************************************************************************)
(* The specifications                                                      *)
(***************************************************************************)
EarlyIdle == SchedIdle /\ PowerIdle /\ TextIdle /\ ParamsIdle

LateIdle == HashIdle /\ VersionIdle /\ EpochIdle /\ InMsgIdle /\ WatchIdle

SchedSpecInit == SchedInit /\ PowerIdle /\ TextIdle /\ ParamsIdle /\ LateIdle
SchedSpec == SchedSpecInit /\ [][SchedNext]_vars

PowerSpecInit == PowerInit /\ SchedIdle /\ TextIdle /\ ParamsIdle /\ LateIdle
PowerSpec == PowerSpecInit /\ [][PowerNext]_vars

TextSpecInit == TextInit /\ SchedIdle /\ PowerIdle /\ ParamsIdle /\ LateIdle
TextSpec == TextSpecInit /\ [][TextNext]_vars

ParamsSpecInit == ParamsInit /\ SchedIdle /\ PowerIdle /\ TextIdle /\ LateIdle
ParamsSpec == ParamsSpecInit /\ [][ParamsNext]_vars

HashSpecInit == HashInit /\ EarlyIdle /\ VersionIdle /\ EpochIdle /\ InMsgIdle /\ WatchIdle
HashSpec == HashSpecInit /\ [][HashNext]_vars

VersionSpecInit == VersionInit /\ EarlyIdle /\ HashIdle /\ EpochIdle /\ InMsgIdle /\ WatchIdle
VersionSpec == VersionSpecInit /\ [][VersionNext]_vars

EpochSpecInit == EpochInit /\ EarlyIdle /\ HashIdle /\ VersionIdle /\ InMsgIdle /\ WatchIdle
EpochSpec == EpochSpecInit /\ [][EpochNext]_vars

InMsgSpecInit == InMsgInit /\ EarlyIdle /\ HashIdle /\ VersionIdle /\ EpochIdle /\ WatchIdle
InMsgSpec == InMsgSpecInit /\ [][InMsgNext]_vars

WatchSpecInit == WatchInit /\ EarlyIdle /\ HashIdle /\ VersionIdle /\ EpochIdle /\ InMsgIdle
WatchSpec == WatchSpecInit /\ [][WatchNext]_vars

(***************************************************************************)
(* The transaction scheduler rotation: C1, C2, C3                          *)
(***************************************************************************)
\* The positions (from 1) of the Worker members of the committee.
WorkerPositions == {i \in 1..Len(committee.Members) : committee.Members[i].Role = RoleWorker}

NumWorkers == Cardinality(WorkerPositions)

\* The position (from 1) of the k-th Worker member, counting from zero.
KthWorker(k) ==
    CHOOSE i \in WorkerPositions : Cardinality({j \in WorkerPositions : j < i}) = k

\* C1: on a committee with total >= 1 workers, TransactionSchedulerIdx(round)
\* succeeds with the index of the k-th Worker member in committee order,
\* k = round mod total, and TransactionScheduler(round) returns the member
\* stored at that index.
Thm_C1 ==
    NumWorkers >= 1 =>
        /\ \A n \in 1..Len(idxLog) :
               idxLog[n] = [idx |-> KthWorker((n - 1) % NumWorkers) - 1,
                            err |-> NoError, panic |-> FALSE]
        /\ \A n \in 1..Len(schedLog) :
               schedLog[n] = [node |-> Some(committee.Members[KthWorker((n - 1) % NumWorkers)]),
                              err |-> NoError, panic |-> FALSE]

\* The committee [Worker A, BackupWorker B, Worker C] has given A, C, A for the
\* rounds 0, 1, 2.
Wit_C1 ==
    /\ committee.Members = <<[Role |-> RoleWorker, PublicKey |-> "A"],
                             [Role |-> RoleBackupWorker, PublicKey |-> "B"],
                             [Role |-> RoleWorker, PublicKey |-> "C"]>>
    /\ Len(schedLog) >= 3
    /\ schedLog[1].node = Some([Role |-> RoleWorker, PublicKey |-> "A"])
    /\ schedLog[2].node = Some([Role |-> RoleWorker, PublicKey |-> "C"])
    /\ schedLog[3].node = Some([Role |-> RoleWorker, PublicKey |-> "A"])
    /\ idxLog[2].idx = 2

\* C2: with total >= 1 workers, every index returned is that of a Worker
\* member, the result for round r + total is that for round r, within a period
\* the indices increase (committee order), and the rounds 0 .. 2*total-1 return
\* each Worker member's index exactly twice.
Thm_C2 ==
    NumWorkers >= 1 =>
        /\ \A n \in 1..Len(idxLog) :
               /\ idxLog[n].err = NoError /\ ~idxLog[n].panic
               /\ idxLog[n].idx + 1 \in WorkerPositions
        /\ \A n \in 1..Len(idxLog) :
               n + NumWorkers <= Len(idxLog) => idxLog[n + NumWorkers].idx = idxLog[n].idx
        /\ \A n \in 1..Len(idxLog) :
               (n % NumWorkers # 0 /\ n + 1 <= Len(idxLog)) => idxLog[n].idx < idxLog[n + 1].idx
        /\ Len(idxLog) >= 2 * NumWorkers =>
               \A w \in WorkerPositions :
                   Cardinality({n \in 1..(2 * NumWorkers) : idxLog[n].idx = w - 1}) = 2

\* Two periods of a committee of two workers behind a backup worker are done.
Wit_C2 ==
    /\ NumWorkers = 2
    /\ Len(committee.Members) = 3
    /\ committee.Members[1].Role = RoleBackupWorker
    /\ Len(idxLog) >= 2 * NumWorkers
    /\ idxLog[1].idx = 1 /\ idxLog[2].idx = 2 /\ idxLog[3].idx = 1 /\ idxLog[4].idx = 2

\* C3: on a committee without a Worker member both functions return the
\* no-workers error for every round: no panic, no member.
Thm_C3 ==
    NumWorkers = 0 =>
        /\ \A n \in 1..Len(idxLog) :
               idxLog[n] = [idx |-> 0, err |-> ErrNoWorkers, panic |-> FALSE]
        /\ \A n \in 1..Len(schedLog) :
               schedLog[n] = [node |-> None, err |-> ErrNoWorkers, panic |-> FALSE]

\* A committee of a backup worker and an invalid member has been asked for
\* every round of the model.
Wit_C3 ==
    /\ committee.Members = <<[Role |-> RoleBackupWorker, PublicKey |-> "A"],
                             [Role |-> RoleInvalid, PublicKey |-> "B"]>>
    /\ Len(schedLog) = NumRounds
    /\ schedLog[NumRounds].err = ErrNoWorkers

(***************************************************************************)
(* Voting power: C4, C5, C6, C7                                            *)
(***************************************************************************)
\* x * d + carry from limb i on, d a number below 2^15.
RECURSIVE MulLimbs(_, _, _, _)
MulLimbs(x, i, carry, d) ==
    IF i > Len(x) THEN (IF carry = 0 THEN <<>> ELSE <<carry>>)
    ELSE LET m == x[i] * d + carry
         IN  <<m % LimbBase>> \o MulLimbs(x, i + 1, m \div LimbBase, d)

Times(x, d) == Normalize(MulLimbs(x, 1, 0, d))

Plus(x, n) == AddLimbs(x, 1, n)

\* a < b, for quantities without leading zeros.
Less(a, b) ==
    IF Len(a) # Len(b) THEN Len(a) < Len(b)
    ELSE \E i \in 1..Len(a) : a[i] < b[i] /\ \A j \in (i + 1)..Len(a) : a[j] = b[j]

\* 2^63 and 2^63 - 1.
TwoTo63 == <<0, 0, 0, 2 ^ 15>>
MaxInt64 == <<LimbBase - 1, LimbBase - 1, LimbBase - 1, 2 ^ 15 - 1>>

\* q is the floor of s / d: q * d <= s < (q + 1) * d.
IsFloorQuotient(q, s, d) == \E r \in 0..(d - 1) : Plus(Times(q, d), r) = s

\* The floor of s / d is at most 2^63 - 1.
QuotientFits(s, d) == Less(s, Times(TwoTo63, d))

Called == vpCalls >= 1

UnitIsPositive == ~IsZero(BaseUnitsPerVotingPower)

\* The one limb of a positive unit of the model.
UnitLimb == BaseUnitsPerVotingPower[1]

\* C4: for a positive unit and a stake whose floor quotient q fits in an
\* int64, VotingPowerFromStake returns no error and the power 1 when q = 0 and
\* q otherwise, so a power >= 1.
Thm_C4 ==
    (Called /\ UnitIsPositive /\ QuotientFits(stake, UnitLimb)) =>
        /\ vpRes.err = NoError
        /\ ~vpRes.power.neg
        /\ ~IsZero(vpRes.power.mag)
        /\ IF Less(stake, BaseUnitsPerVotingPower)
           THEN vpRes.power.mag = QuantityOf(1)
           ELSE IsFloorQuotient(vpRes.power.mag, stake, UnitLimb)

\* The stake 160 has given the power 10 with the unit 16.
Wit_C4 ==
    /\ Called
    /\ BaseUnitsPerVotingPower = QuantityOf(16)
    /\ stake = QuantityOf(160)
    /\ vpRes = [power |-> Int64Of(10), err |-> NoError]

\* C5: for a positive unit, VotingPowerFromStake fails with the overflow error
\* (and power 0) exactly when the floor quotient exceeds 2^63 - 1; a quotient
\* of 2^63 - 1 is returned as it is, and a power returned without error is
\* never a wrapped value: it is the quotient, or the 1 of a zero quotient.
Thm_C5 ==
    (Called /\ UnitIsPositive) =>
        /\ vpRes.err = ErrTooManyBaseUnits <=> ~QuotientFits(stake, UnitLimb)
        /\ vpRes.err = ErrTooManyBaseUnits => vpRes.power = Int64Of(0)
        /\ IsFloorQuotient(MaxInt64, stake, UnitLimb) =>
               vpRes = [power |-> [neg |-> FALSE, mag |-> MaxInt64], err |-> NoError]
        /\ vpRes.err = NoError =>
               /\ ~vpRes.power.neg
               /\ \/ IsFloorQuotient(vpRes.power.mag, stake, UnitLimb)
                  \/ Less(stake, BaseUnitsPerVotingPower) /\ vpRes.power.mag = QuantityOf(1)

\* The stake 2^70 has failed with the overflow error with the unit 1.
Wit_C5 ==
    /\ Called
    /\ BaseUnitsPerVotingPower = QuantityOf(1)
    /\ stake = <<0, 0, 0, 0, 64>>
    /\ vpRes = [power |-> Int64Of(0), err |-> ErrTooManyBaseUnits]

\* C6: with the unit zero, VotingPowerFromStake fails with the division error
\* and power 0, whatever the stake.
Thm_C6 ==
    (Called /\ ~UnitIsPositive) => vpRes = [power |-> Int64Of(0), err |-> ErrQuo]

\* The stake 0 has failed with the division error with the unit 0.
Wit_C6 ==
    /\ Called
    /\ IsZero(BaseUnitsPerVotingPower)
    /\ IsZero(stake)
    /\ vpRes.err = ErrQuo

\* C7: a call of VotingPowerFromStake leaves the caller's stake and the unit as
\* they were, and a call that follows another on the same stake and unit
\* returns the same power and error.
Thm_C7 ==
    [][vpCalls' = vpCalls + 1 =>
          /\ stake' = stake
          /\ BaseUnitsPerVotingPower' = BaseUnitsPerVotingPower
          /\ Called => vpRes' = vpRes]_vars

\* The stake 64 * 2^16 + 160 has been converted twice, and is still what it was.
Wit_C7 ==
    /\ vpCalls >= 2
    /\ BaseUnitsPerVotingPower = QuantityOf(16)
    /\ stake = <<160, 64>>
    /\ vpRes = [power |-> [neg |-> FALSE, mag |-> <<10, 4>>], err |-> NoError]

(***************************************************************************)
(* The text codecs: C8, C9                                                 *)
(***************************************************************************)
\* The text on the wire is the output of MarshalText of the Role v.
WireIsRole(v) == wireSrc = [type |-> "Role", val |-> v]

\* The text on the wire is the output of MarshalText of the CommitteeKind v.
WireIsKind(v) == wireSrc = [type |-> "CommitteeKind", val |-> v]

\* C8 as claimed: for every defined Role and every defined CommitteeKind,
\* RoleInvalid and KindInvalid among them, MarshalText succeeds and
\* UnmarshalText of its output succeeds and yields the value encoded.
Cex_C8 ==
    /\ \A v \in DefinedRoles :
           /\ (textOp = "Role.MarshalText" /\ WireIsRole(v)) => textErr = NoError
           /\ (textOp = "Role.UnmarshalText" /\ WireIsRole(v)) =>
                  (textErr = NoError /\ role = v)
    /\ \A v \in DefinedKinds :
           /\ (textOp = "CommitteeKind.MarshalText" /\ WireIsKind(v)) => textErr = NoError
           /\ (textOp = "CommitteeKind.UnmarshalText" /\ WireIsKind(v)) =>
                  (textErr = NoError /\ kind = v)

\* C8 as amended: MarshalText succeeds for every defined value; UnmarshalText
\* of its output succeeds and yields the value encoded for RoleWorker,
\* RoleBackupWorker and KindComputeExecutor, and returns an error for the
\* output "invalid" of RoleInvalid and of KindInvalid.
Thm_C8 ==
    /\ \A v \in DefinedRoles :
           /\ (textOp = "Role.MarshalText" /\ WireIsRole(v)) =>
                  (textErr = NoError /\ wire # None)
           /\ (textOp = "Role.UnmarshalText" /\ WireIsRole(v)) =>
                  IF v = RoleInvalid THEN textErr = ErrInvalidRole
                  ELSE textErr = NoError /\ role = v
    /\ \A v \in DefinedKinds :
           /\ (textOp = "CommitteeKind.MarshalText" /\ WireIsKind(v)) =>
                  (textErr = NoError /\ wire # None)
           /\ (textOp = "CommitteeKind.UnmarshalText" /\ WireIsKind(v)) =>
                  IF v = KindInvalid THEN textErr = ErrInvalidRole
                  ELSE textErr = NoError /\ kind = v

\* The output of RoleBackupWorker.MarshalText() has been decoded into a Role.
Wit_C8 ==
    /\ textOp = "Role.UnmarshalText"
    /\ WireIsRole(RoleBackupWorker)
    /\ wire = Some(RoleBackupWorkerName)
    /\ role = RoleBackupWorker
    /\ textErr = NoError

\* C9: UnmarshalText of a Role or a CommitteeKind, handed a text that is not
\* the name of a defined value, returns an error and leaves the receiver as it
\* was.
Thm_C9 ==
    [][/\ (textOp' = "Role.UnmarshalText" /\ wire # None /\ wire[1] \notin RoleNames) =>
              (textErr' # NoError /\ role' = role)
       /\ (textOp' = "CommitteeKind.UnmarshalText" /\ wire # None /\ wire[1] \notin KindNames) =>
              (textErr' # NoError /\ kind' = kind)]_vars

\* A Role that held RoleBackupWorker still holds it after the decode of the
\* text "Worker" failed.
Wit_C9 ==
    /\ textOp = "Role.UnmarshalText"
    /\ wire = Some("Worker")
    /\ textErr = ErrInvalidRole
    /\ role = RoleBackupWorker
    /\ kind = KindComputeExecutor

(***************************************************************************)
(* ConsensusParameterChanges.Apply: C10                                    *)
(***************************************************************************)
\* The step is a call of Apply.
IsApply == applied' = applied + 1

\* C10: Apply sets MinValidators (MaxValidators) to the change's value exactly
\* when the change holds one, leaves every other parameter as it was, and a
\* second Apply of the same change changes nothing.
Thm_C10 ==
    [][IsApply =>
          /\ params'.MinValidators =
                 IF change.MinValidators # None THEN change.MinValidators[1]
                 ELSE params.MinValidators
          /\ params'.MaxValidators =
                 IF change.MaxValidators # None THEN change.MaxValidators[1]
                 ELSE params.MaxValidators
          /\ params'.MaxValidatorsPerEntity = params.MaxValidatorsPerEntity
          /\ params'.DebugBypassStake = params.DebugBypassStake
          /\ params'.RewardFactorEpochElectionAny = params.RewardFactorEpochElectionAny
          /\ params'.DebugForceElect = params.DebugForceElect
          /\ params'.DebugAllowWeakAlpha = params.DebugAllowWeakAlpha
          /\ applied >= 1 => params' = params]_vars

\* A change of MaxValidators alone has been applied twice to parameters whose
\* MinValidators is another number.
Wit_C10 ==
    /\ applied = 2
    /\ change = [MinValidators |-> None, MaxValidators |-> Some(2)]
    /\ params.MaxValidators = 2
    /\ params.MinValidators = 1
    /\ params.DebugBypassStake
    /\ params.DebugForceElect # {}

(***************************************************************************)
(* Apply and MinValidators <= MaxValidators: C11                           *)
(***************************************************************************)
\* C11: Apply does not enforce MinValidators <= MaxValidators: every Apply
\* returns no error, and an Apply, to parameters with MinValidators <=
\* MaxValidators, of a change that sets only MinValidators, above the current
\* MaxValidators, leaves MinValidators > MaxValidators.
Thm_C11 ==
    [][IsApply =>
          /\ applyErr' = NoError
          /\ (/\ params.MinValidators <= params.MaxValidators
              /\ change.MinValidators # None
              /\ change.MaxValidators = None
              /\ change.MinValidators[1] > params.MaxValidators) =>
                 (/\ params'.MinValidators = change.MinValidators[1]
                  /\ params'.MinValidators > params'.MaxValidators)]_vars

\* The change that sets only MinValidators, to 2, has been applied once, with
\* no error, to parameters whose MaxValidators is 1.
Wit_C11 ==
    /\ applied = 1
    /\ change = [MinValidators |-> Some(2), MaxValidators |-> None]
    /\ applyErr = NoError
    /\ params.MinValidators = 2
    /\ params.MaxValidators = 1

(***************************************************************************)
(* EncodedMembersHash: C12                                                 *)
(***************************************************************************)
\* s and t hold the same members, each as often.
SameMembers(s, t) ==
    /\ Len(s) = Len(t)
    /\ \A x \in HashNodes :
           Cardinality({i \in 1..Len(s) : s[i] = x}) = Cardinality({i \in 1..Len(t) : t[i] = x})

BothHashed == hashOfA # None /\ hashOfB # None

\* C12: two committees with the same members in the same order have equal
\* EncodedMembersHash, whatever their Kind, RuntimeID and ValidFor, and two
\* committees with the same members in another order have different ones.
Thm_C12 ==
    BothHashed =>
        /\ cmtA.Members = cmtB.Members => hashOfA = hashOfB
        /\ (SameMembers(cmtA.Members, cmtB.Members) /\ cmtA.Members # cmtB.Members) =>
               hashOfA # hashOfB

\* Two committees of another kind, runtime and epoch that hold the worker A
\* and the backup worker B in the two orders have been hashed.
Wit_C12 ==
    /\ BothHashed
    /\ cmtA.Members = <<[Role |-> RoleWorker, PublicKey |-> "A"],
                        [Role |-> RoleBackupWorker, PublicKey |-> "B"]>>
    /\ cmtB.Members = <<[Role |-> RoleBackupWorker, PublicKey |-> "B"],
                        [Role |-> RoleWorker, PublicKey |-> "A"]>>
    /\ cmtA.ValidFor # cmtB.ValidFor
    /\ hashOfA # hashOfB

(***************************************************************************)
(* cbor.GetVersion: C15                                                    *)
(***************************************************************************)
\* The decoder accepts the payload: a map whose "v", if any, a uint16 holds.
Decodable ==
    /\ payload.form = "map"
    /\ payload.hasV => payload.v \in 0..(2 ^ 16 - 1)

DecoderErrors == {ErrMalformed, ErrUnmarshalType}

\* C15 as claimed: GetVersion returns (v, no error) for every decodable payload
\* with a version field v, whatever the 16-bit value v; ErrInvalidVersion
\* exactly when a decodable payload has no version field; and the decoder's
\* error, with version 0, when the payload cannot be decoded.
Cex_C15 ==
    verCalled =>
        /\ (Decodable /\ payload.hasV) => verRes = [v |-> payload.v, err |-> NoError]
        /\ verRes.err = ErrInvalidVersion <=> (Decodable /\ ~payload.hasV)
        /\ ~Decodable => (verRes.v = 0 /\ verRes.err \in DecoderErrors)

\* C15 as amended: GetVersion returns (v, no error) for every decodable payload
\* with a version field v other than 65535; ErrInvalidVersion, with version 0,
\* exactly when a decodable payload has no version field or has the version
\* 65535; the decoder's error, with version 0, when the payload cannot be
\* decoded; and a version returned without error is the payload's.
Thm_C15 ==
    verCalled =>
        /\ (Decodable /\ payload.hasV /\ payload.v # invalidVersion) =>
               verRes = [v |-> payload.v, err |-> NoError]
        /\ verRes.err = ErrInvalidVersion <=>
               (Decodable /\ (~payload.hasV \/ payload.v = invalidVersion))
        /\ verRes.err = ErrInvalidVersion => verRes.v = 0
        /\ ~Decodable => (verRes.v = 0 /\ verRes.err \in DecoderErrors)
        /\ verRes.err = NoError => (payload.hasV /\ verRes.v = payload.v)

\* The version of a map that holds "v": 65534 beside another field has been
\* read.
Wit_C15 ==
    /\ verCalled
    /\ payload = [form |-> "map", hasV |-> TRUE, v |-> invalidVersion - 1, extra |-> TRUE]
    /\ verRes = [v |-> invalidVersion - 1, err |-> NoError]


(***************************************************************************)
(* initialEpochTransitionsWith: the epochs it sets, the waits it makes     *)
(***************************************************************************)
IsSetEpoch(e) == e.op = "SetEpoch"

\* The SetEpoch calls made so far, in order.
SetEpochCalls == SelectSeq(etLog, IsSetEpoch)

Succeeded(e) == e.op = "SetEpoch" /\ e.ok

Returned == etRes # None

ReturnedOk == Returned /\ etRes[1].err = NoError

\* C16: the epochs passed to SetEpoch are baseEpoch+1, baseEpoch+2, ... with
\* no gap and no repeat; the first failing call is the last call made and its
\* error is returned; the returned epoch is baseEpoch + 1 + the number of
\* SetEpoch calls that succeeded.
Thm_C16 ==
    /\ \A k \in 1..Len(SetEpochCalls) : SetEpochCalls[k].arg = etCfg.baseEpoch + k
    /\ \A p \in 1..Len(etLog) :
          ~etLog[p].ok => /\ p = Len(etLog)
                          /\ Returned
                          /\ etRes[1].err # NoError
    /\ Returned =>
          etRes[1].epoch = etCfg.baseEpoch + 1 + Len(SelectSeq(etLog, Succeeded))

\* A run that set three epochs and returned the failure of the fourth call.
Wit_C16 ==
    /\ Returned
    /\ etRes[1].err = ErrSetEpoch
    /\ etCfg.baseEpoch = 7
    /\ Len(SetEpochCalls) = 4
    /\ etRes[1].epoch = 11

\* The number of epoch transitions the flags and the backend call for, given
\* the number of skips drawn.
ExpectedTransitions ==
    IF etCfg.Backend \notin {"", BackendVRF} THEN 2
    ELSE 2 + (IF etCfg.debugWeakAlphaOk THEN 0 ELSE 2)
           + (IF etCfg.debugNoRandomInitialEpoch THEN 0 ELSE etSkips)

\* C17: in a run where every step succeeds the number of epoch transitions
\* is 2 when the beacon backend is neither unset nor VRF, and otherwise 2,
\* plus 2 unless debugWeakAlphaOk, plus a number in 1 .. 4 unless
\* debugNoRandomInitialEpoch; the returned epoch lies in baseEpoch+3 ..
\* baseEpoch+9, and is baseEpoch+3 with both flags set.
Thm_C17 ==
    ReturnedOk =>
        /\ Len(SetEpochCalls) = ExpectedTransitions
        /\ (etCfg.Backend \in {"", BackendVRF} /\ ~etCfg.debugNoRandomInitialEpoch)
              => etSkips \in 1..4
        /\ etRes[1].epoch = etCfg.baseEpoch + 1 + Len(SetEpochCalls)
        /\ etRes[1].epoch >= etCfg.baseEpoch + 3
        /\ etRes[1].epoch <= etCfg.baseEpoch + 9
        /\ (etCfg.debugWeakAlphaOk /\ etCfg.debugNoRandomInitialEpoch)
              => etRes[1].epoch = etCfg.baseEpoch + 3

\* A VRF run with neither flag that drew four skips: eight transitions.
Wit_C17 ==
    /\ ReturnedOk
    /\ etCfg.Backend = BackendVRF
    /\ ~etCfg.debugWeakAlphaOk
    /\ ~etCfg.debugNoRandomInitialEpoch
    /\ Len(SetEpochCalls) = 8
    /\ etRes[1].epoch = etCfg.baseEpoch + 9

\* The positions in the log of the SetEpoch calls.
SetEpochPositions == {p \in 1..Len(etLog) : etLog[p].op = "SetEpoch"}

\* The position of the k-th SetEpoch call; k of them have been made.
RECURSIVE KthSetEpoch(_)
KthSetEpoch(k) ==
    IF k = 1 THEN CHOOSE p \in SetEpochPositions : \A q \in SetEpochPositions : p <= q
    ELSE CHOOSE p \in SetEpochPositions :
            /\ p > KthSetEpoch(k - 1)
            /\ \A q \in SetEpochPositions : q > KthSetEpoch(k - 1) => p <= q

\* The positions at which node i of a kind has been waited ready.
WaitsOf(what, i) ==
    {p \in 1..Len(etLog) : /\ etLog[p].op = "WaitReady"
                           /\ etLog[p].what = what
                           /\ etLog[p].arg = i}

AutoStart(flags) == {i \in 1..Len(flags) : ~flags[i]}

\* Every auto-start node of the fixture has been waited ready before the
\* first SetEpoch call.
WaitedBeforeFirst(what, flags) ==
    SetEpochPositions # {} =>
        \A i \in AutoStart(flags) : \E p \in WaitsOf(what, i) : p < KthSetEpoch(1)

\* Every auto-start compute worker is waited ready after the first SetEpoch
\* call, and before the second one.
ComputeWaitedBetween ==
    /\ \A i \in 1..Len(etCfg.ComputeWorkers) : \A p \in WaitsOf("compute", i) :
          /\ SetEpochPositions # {}
          /\ p > KthSetEpoch(1)
    /\ Len(SetEpochCalls) >= 2 =>
          \A i \in AutoStart(etCfg.ComputeWorkers) :
             \E p \in WaitsOf("compute", i) : p < KthSetEpoch(2)

\* No node whose fixture has NoAutoStart set is waited for.
NoAutoStartNeverWaited ==
    /\ \A i \in 1..Len(etCfg.Validators) :
          etCfg.Validators[i] => WaitsOf("validators", i) = {}
    /\ \A i \in 1..Len(etCfg.Keymanagers) :
          etCfg.Keymanagers[i] => WaitsOf("keymanagers", i) = {}
    /\ \A i \in 1..Len(etCfg.ComputeWorkers) :
          etCfg.ComputeWorkers[i] => WaitsOf("compute", i) = {}

\* C18 as stated: every auto-start validator and key manager has been waited
\* ready before the first epoch transition, whatever the network.
Cex_C18 ==
    /\ WaitedBeforeFirst("validators", etCfg.Validators)
    /\ WaitedBeforeFirst("keymanagers", etCfg.Keymanagers)
    /\ ComputeWaitedBetween
    /\ NoAutoStartNeverWaited

\* C18: when the network has a key manager, every auto-start validator and
\* key manager has been waited ready before the first epoch transition, and
\* when it has none no validator is waited for at all; every auto-start
\* compute worker is waited ready after the first and before the second
\* transition; no NoAutoStart node is waited for.
Thm_C18 ==
    /\ Len(etCfg.Keymanagers) > 0 =>
          /\ WaitedBeforeFirst("validators", etCfg.Validators)
          /\ WaitedBeforeFirst("keymanagers", etCfg.Keymanagers)
    /\ Len(etCfg.Keymanagers) = 0 =>
          \A i \in 1..Len(etCfg.Validators) : WaitsOf("validators", i) = {}
    /\ ComputeWaitedBetween
    /\ NoAutoStartNeverWaited

\* A network with an auto-start validator, key manager and compute worker,
\* after its second epoch transition.
Wit_C18 ==
    /\ AutoStart(etCfg.Validators) # {}
    /\ AutoStart(etCfg.Keymanagers) # {}
    /\ AutoStart(etCfg.ComputeWorkers) # {}
    /\ Len(SetEpochCalls) >= 2
    /\ WaitsOf("validators", 1) # {}
    /\ WaitsOf("compute", 1) # {}


(***************************************************************************)
(* submitRuntimeInMsg: what it returns, and its subscription               *)
(***************************************************************************)
InMsgReturned == imRes # None

Present(ev) == ev.InMsgProcessed # None

Matches(ev) ==
    /\ Present(ev)
    /\ ev.InMsgProcessed[1].Caller = CallerAddr
    /\ ev.InMsgProcessed[1].Tag = ExpectedTag

Submitted == \E p \in 1..Len(imTrace) : imTrace[p] = Call("SubmitTx", TRUE)

\* C19: success is returned only after an event with InMsgProcessed, the
\* signer's address as caller and tag 42 has been received; events without
\* InMsgProcessed leave the function waiting; the first event with
\* InMsgProcessed ends the wait, with an error when its caller or tag is
\* another one; a wait that ends without such an event ends with the
\* error of the context, which is then done.
Thm_C19 ==
    /\ (InMsgReturned /\ imRes[1] = NoError) =>
          /\ imRecv # <<>>
          /\ Matches(imRecv[Len(imRecv)])
    /\ \A p \in 1..Len(imRecv) :
          Present(imRecv[p]) =>
             /\ p = Len(imRecv)
             /\ InMsgReturned
             /\ IF Matches(imRecv[p]) THEN imRes[1] = NoError
                ELSE imRes[1] \in {ErrUnexpectedCaller, ErrUnexpectedTag}
    /\ imPc = "waiting" => \A p \in 1..Len(imRecv) : ~Present(imRecv[p])
    /\ (InMsgReturned /\ Submitted /\ \A p \in 1..Len(imRecv) : ~Present(imRecv[p])) =>
          /\ imRes[1] \in {Canceled, DeadlineExceeded}
          /\ imRes[1] = imCtxErr

\* Success after an event without InMsgProcessed was skipped, with time
\* having passed.
Wit_C19 ==
    /\ InMsgReturned
    /\ imRes[1] = NoError
    /\ Len(imRecv) = 2
    /\ ~Present(imRecv[1])
    /\ imClock > 0

\* C20: the transaction is submitted only after WatchEvents has succeeded,
\* never after it has failed, and a subscription that was made is closed
\* when the function has returned, as the last thing it did.
Thm_C20 ==
    /\ \A p \in 1..Len(imTrace) :
          imTrace[p].op = "SubmitTx" =>
             \E q \in 1..(p - 1) : imTrace[q] = Call("WatchEvents", TRUE)
    /\ (\E q \in 1..Len(imTrace) : imTrace[q] = Call("WatchEvents", FALSE)) =>
          \A p \in 1..Len(imTrace) : imTrace[p].op # "SubmitTx"
    /\ (InMsgReturned /\ \E q \in 1..Len(imTrace) : imTrace[q] = Call("WatchEvents", TRUE)) =>
          /\ imSub = "closed"
          /\ imTrace[Len(imTrace)] = Call("Close", TRUE)
    /\ ~InMsgReturned => imSub # "closed"

\* The submission failed with the subscription made: it has been closed.
Wit_C20 ==
    /\ InMsgReturned
    /\ imRes[1] = ErrSubmitTx
    /\ imSub = "closed"


(***************************************************************************)
(* WatchCommittees: what a subscriber is sent, and cancellation            *)
(***************************************************************************)
\* What subscriber s has been delivered, followed by what waits for it.
Stream(s) == wcGot[s] \o wcBuf[s]

\* In seq, every committee valid for epoch comes before position p.
AllBefore(seq, epoch, p) ==
    \A i \in 1..Len(Runtimes) :
       \E q \in 1..(p - 1) : seq[q] = [RuntimeID |-> Runtimes[i], ValidFor |-> epoch]

\* C13: whatever the interleaving of subscriptions and elections, a
\* subscriber is delivered every committee valid for the epoch it subscribed
\* in before any committee of a later epoch, committees reach it in epoch
\* order, and no committee reaches it twice.
Thm_C13 ==
    \A s \in Subscribers :
       /\ \A p \in 1..Len(wcGot[s]) :
             /\ wcGot[s][p].ValidFor >= wcSub[s].since
             /\ wcGot[s][p].ValidFor > wcSub[s].since =>
                   AllBefore(wcGot[s], wcSub[s].since, p)
       /\ \A p, q \in 1..Len(Stream(s)) :
             p < q => /\ Stream(s)[p] # Stream(s)[q]
                      /\ Stream(s)[p].ValidFor <= Stream(s)[q].ValidFor

\* One subscriber joined in the first epoch and one in the second, and both
\* have been delivered committees of the third.
Wit_C13 ==
    /\ wcSub["s1"].since = 1
    /\ wcSub["s2"].since = 2
    /\ Len(wcGot["s1"]) = 3 * Len(Runtimes)
    /\ Len(wcGot["s2"]) = 2 * Len(Runtimes)

\* Nothing more is delivered to a subscriber whose cancellation has
\* returned, and nothing waits for it.
NoDeliveryAfterCancel ==
    \A s \in Subscribers :
       wcSub[s].state = "cancelled" =>
          /\ wcGot'[s] = wcGot[s]
          /\ wcBuf[s] = <<>>
          /\ wcBuf'[s] = <<>>

\* Whatever the other subscribers do, a subscriber with a committee waiting
\* can take it, and a publication in flight can take its next step.
NotBlocked ==
    /\ \A t \in Subscribers : wcBuf[t] # <<>> => ENABLED Deliver(t)
    /\ wcLock = "publisher" =>
          \/ \E t \in Subscribers : ENABLED PublishTo(t)
          \/ ENABLED EndPublish

====
